---- MODULE Spec2Model ----
(***************************************************************************)
(* The demo provisioning program: the CLI action of src/index.ts driving   *)
(* the resource graph that src/function.ts and src/vm.ts declare.          *)
(*                                                                         *)
(* The program declares resources and the edges between them; the stack    *)
(* operations up and destroy walk that graph.  A resource is created only  *)
(* when everything it depends on (dependsOn, or an output used as an       *)
(* input) is created; it is deleted only when nothing created depends on   *)
(* it; after the first failed step no new step is started and the steps in *)
(* flight run to their end.                                                *)
(***************************************************************************)
EXTENDS Naturals, Sequences, FiniteSets

VARIABLES
    pc,         \* position of the CLI action (src/index.ts)
    destroy,    \* opts.destroy of the current invocation
    ops,        \* stack operations called by the current invocation, in order
    thrown,     \* the stack operation whose promise rejected, or "none"
    printed,    \* the summary printed by the current invocation, or "none"
    st,         \* per resource: "none", "creating", "created", "deleting"
    cause,      \* the resource whose step failed first in the current operation, or "none"
    dirExists,  \* WORK_DIR exists on the local disk
    dirFiles,   \* files in WORK_DIR
    container,  \* a docker container named after the workload exists on the VM
    launch,     \* outcome of `docker run` in the current invocation:
                \* "none" (not run), "ok", "conflict", "error"
    wiped       \* WORK_DIR was removed while the <name>-key command stayed in the stack

vars == <<pc, destroy, ops, thrown, printed, st, cause,
          dirExists, dirFiles, container, launch, wiped>>

(***************************************************************************)
(* The resources                                                           *)
(***************************************************************************)

\* const files = [...] (src/vm.ts)
files == {"cluster.env", "istio-token", "mesh.yaml", "root-cert.pem", "hosts"}

\* one remote.CopyFile per file; the resource is identified by its file
remoteFiles == files

\* what function.ts declares and VmService takes as inputs or waits for; the
\* resources in between (the container API service, the istio-system namespace
\* and the base chart) are folded into the edges, and the ones nothing in
\* VmService refers to (istiod, the gateways, the virtual service) are left out
Upstream == {"project", "network", "subnet", "firewall", "cluster", "kc", "k8s",
             "onpremns", "ewgw"}

\* what the VmService constructor declares
VmResources == {"sa", "wg", "workDir", "sshKey", "vm", "keyOnDisk",
                "dockerSetup", "dockerRun", "configure"} \cup remoteFiles

Resources == Upstream \cup VmResources

\* clusterOpts: provider k8sProvider, parent gke, dependsOn localKc
clusterOpts == {"k8s", "cluster", "kc"}

\* connection: host is this.hostname (an output of vm), privateKey an output of sshKey
\* (variant: the host given as a literal, not as the VM's output)
ConnectionNoHost == {"sshKey"}
connection == {"vm", "sshKey"}

\* envs: VM_NAMESPACE is args.namespace, an output of the onprem namespace
envs == {"onpremns"}

SaDeps == clusterOpts \cup {"onpremns"}

WorkloadGroupDeps == clusterOpts \cup envs

\* (variant: without dependsOn: sa)
WorkDirNoSa == envs
WorkDirDeps == envs \cup {"sa"}

\* (variant: without the ssh-keys metadata that reads sshKey.publicKeyOpenssh)
VmNoKey == {"project", "network", "subnet", "ewgw", "firewall"}
VmDeps == {"sshKey", "project", "network", "subnet", "ewgw", "firewall"}

KeyOnDiskDeps == {"sshKey", "vm"}

RemoteFileDeps == connection \cup {"vm", "workDir"}

DockerSetupDeps == connection

DockerRunDeps == connection \cup {"dockerSetup"}

\* (variant: dependsOn: remoteFiles alone)
ConfigureNoRun == connection \cup remoteFiles
ConfigureDeps == connection \cup remoteFiles \cup {"dockerRun"}

UpstreamDeps(r) ==
    CASE r = "project"  -> {}
      [] r = "network"  -> {"project"}
      [] r = "subnet"   -> {"project", "network"}
      [] r = "firewall" -> {"project", "network"}
      [] r = "cluster"  -> {"project"}
      [] r = "kc"       -> {"project", "cluster"}
      [] r = "k8s"      -> {"project", "cluster"}
      [] r = "onpremns" -> clusterOpts
      [] r = "ewgw"     -> clusterOpts   \* through the base chart and its namespace

Deps(r) ==
    CASE r \in Upstream    -> UpstreamDeps(r)
      [] r = "sa"          -> SaDeps
      [] r = "wg"          -> WorkloadGroupDeps
      [] r = "workDir"     -> WorkDirDeps
      [] r = "sshKey"      -> {}
      [] r = "vm"          -> VmDeps
      [] r = "keyOnDisk"   -> KeyOnDiskDeps
      [] r \in remoteFiles -> RemoteFileDeps
      [] r = "dockerSetup" -> DockerSetupDeps
      [] r = "dockerRun"   -> DockerRunDeps
      [] r = "configure"   -> ConfigureDeps

Dependents(r) == {d \in Resources : r \in Deps(d)}

(***************************************************************************)
(* The local working directory and the remote machine                      *)
(***************************************************************************)

workloadgroupYaml == "workloadgroup.yaml"
debugFiles == {"key", "hostname"}

\* workDir create: mkdir -p, cat > workloadgroup.yaml, istioctl ... -o WORK_DIR
\* (variant: the descriptor piped to istioctl instead of written to a file)
WorkDirCreateNoYaml == files
WorkDirCreate == {workloadgroupYaml} \cup files

\* the stages at which the workDir script can stop: before mkdir, or at istioctl
WorkDirPartial == {{}, {workloadgroupYaml}}

\* the remote steps: file copies and commands run over the SSH connection
RemoteSteps == remoteFiles \cup {"dockerSetup", "dockerRun", "configure"}

\* resources whose deletion runs no command (no `delete` script; CopyFile)
NoDelete == {"kc", "dockerSetup", "configure"} \cup remoteFiles

(***************************************************************************)
(* The CLI action (src/index.ts)                                           *)
(***************************************************************************)

\* if (opts.destroy) { ...; return } else refresh
\* (variant: the --destroy branch missing)
AfterCancelFallThrough(d) == "refresh"
AfterCancel(d) == IF d THEN "destroy" ELSE "refresh"

\* what the action prints when the awaited operation rejects: nothing, the
\* console.log is skipped (catch (e) { throw e } for destroy)
\* (variant: the summary logged from the catch block)
SummaryOnErrorPrinted(op) == IF op = "up" THEN "update" ELSE "destroy"
SummaryOnError(op) == "none"

SummaryOnSuccess(op) == IF op = "up" THEN "update" ELSE "destroy"

\* a rejected await leaves the action at once
OnReject(op, next) == "exit"

Init ==
    /\ pc = "idle"
    /\ destroy = FALSE
    /\ ops = <<>>
    /\ thrown = "none"
    /\ printed = "none"
    /\ st = [r \in Resources |-> "none"]
    /\ cause = "none"
    /\ dirExists = FALSE
    /\ dirFiles = {}
    /\ container = FALSE
    /\ launch = "none"
    /\ wiped = FALSE

World == <<st, cause, dirExists, dirFiles, container, launch, wiped>>

\* cli.parse(process.argv): the action starts and calls createOrSelectStack
Invoke ==
    /\ pc \in {"idle", "exit"}
    /\ \E d \in BOOLEAN : destroy' = d
    /\ pc' = "createOrSelectStack"
    /\ ops' = <<"createOrSelectStack">>
    /\ thrown' = "none"
    /\ printed' = "none"
    /\ cause' = "none"
    /\ launch' = "none"
    /\ UNCHANGED <<st, dirExists, dirFiles, container, wiped>>

\* await LocalWorkspace.createOrSelectStack(...) resolves: stack.cancel() is called
SelectOk ==
    /\ pc = "createOrSelectStack"
    /\ pc' = "cancel"
    /\ ops' = Append(ops, "cancel")
    /\ UNCHANGED <<destroy, thrown, printed>>
    /\ UNCHANGED World

SelectFail ==
    /\ pc = "createOrSelectStack"
    /\ thrown' = "createOrSelectStack"
    /\ pc' = OnReject("createOrSelectStack", "cancel")
    /\ ops' = IF pc' = "exit" THEN ops ELSE Append(ops, pc')
    /\ UNCHANGED <<destroy, printed>>
    /\ UNCHANGED World

\* the `always` trigger of the kc command: new Date().getMilliseconds() differs
\* from the recorded value (the command is replaced) or happens to equal it
KcAfterTrigger(changed) ==
    IF changed /\ st["kc"] = "created" THEN [st EXCEPT !["kc"] = "none"] ELSE st

\* await stack.cancel() resolves: stack.destroy or stack.refresh is called
CancelOk ==
    /\ pc = "cancel"
    /\ pc' = AfterCancel(destroy)
    /\ ops' = Append(ops, pc')
    /\ UNCHANGED <<destroy, thrown, printed>>
    /\ UNCHANGED World

CancelFail ==
    /\ pc = "cancel"
    /\ thrown' = "cancel"
    /\ pc' = OnReject("cancel", AfterCancel(destroy))
    /\ ops' = IF pc' = "exit" THEN ops ELSE Append(ops, pc')
    /\ UNCHANGED <<destroy, printed>>
    /\ UNCHANGED World

\* await stack.refresh() resolves: stack.up is called
RefreshOk ==
    /\ pc = "refresh"
    /\ pc' = "up"
    /\ ops' = Append(ops, "up")
    /\ \E changed \in BOOLEAN : st' = KcAfterTrigger(changed)
    /\ UNCHANGED <<destroy, thrown, printed>>
    /\ UNCHANGED <<cause, dirExists, dirFiles, container, launch, wiped>>

RefreshFail ==
    /\ pc = "refresh"
    /\ thrown' = "refresh"
    /\ pc' = "exit"
    /\ UNCHANGED <<destroy, ops, printed>>
    /\ UNCHANGED World

(***************************************************************************)
(* stack.up: the resources are created in dependency order                 *)
(***************************************************************************)

\* the error the operation reports as its cause: the first one
FirstError(r) == IF cause = "none" THEN r ELSE cause

CreateReady(r) == \A d \in Deps(r) : st[d] = "created"

StartCreate(r) ==
    /\ pc = "up"
    /\ cause = "none"
    /\ st[r] = "none"
    /\ CreateReady(r)
    /\ st' = [st EXCEPT ![r] = "creating"]
    /\ UNCHANGED <<pc, destroy, ops, thrown, printed>>
    /\ UNCHANGED <<cause, dirExists, dirFiles, container, launch, wiped>>

\* `docker run -d --name <name>`: the name must be free
DockerRunCanSucceed(c) == ~c

\* whether r's create can succeed in the current state of the disk and the VM
CanSucceed(r) ==
    CASE r = "keyOnDisk"   -> dirExists \/ st["workDir"] = "creating"
      [] r = "dockerRun"   -> DockerRunCanSucceed(container)
      [] r \in remoteFiles -> r \in dirFiles
      [] OTHER             -> TRUE

CreateOk(r) ==
    /\ pc = "up"
    /\ st[r] = "creating"
    /\ CanSucceed(r)
    /\ st' = [st EXCEPT ![r] = "created"]
    /\ dirExists' = IF r \in {"workDir", "keyOnDisk"} THEN TRUE ELSE dirExists
    /\ dirFiles' = CASE r = "workDir"   -> dirFiles \cup WorkDirCreate
                     [] r = "keyOnDisk" -> dirFiles \cup debugFiles
                     [] OTHER           -> dirFiles
    /\ container' = IF r = "dockerRun" THEN TRUE ELSE container
    /\ launch' = IF r = "dockerRun" THEN "ok" ELSE launch
    /\ wiped' = IF r = "keyOnDisk" THEN FALSE ELSE wiped
    /\ UNCHANGED <<pc, destroy, ops, thrown, printed, cause>>

CreateFail(r) ==
    /\ pc = "up"
    /\ st[r] = "creating"
    /\ st' = [st EXCEPT ![r] = "none"]
    /\ cause' = FirstError(r)
    /\ IF r = "workDir"
         THEN \E part \in WorkDirPartial :
                 /\ dirExists' = (dirExists \/ part # {})
                 /\ dirFiles' = dirFiles \cup part
         ELSE UNCHANGED <<dirExists, dirFiles>>
    /\ IF r = "dockerRun"
         THEN IF container
                THEN launch' = "conflict" /\ UNCHANGED container
                ELSE launch' = "error" /\ container' \in BOOLEAN
         ELSE UNCHANGED <<container, launch>>
    /\ UNCHANGED <<pc, destroy, ops, thrown, printed, wiped>>

UpReturn ==
    /\ pc = "up"
    /\ \A r \in Resources : st[r] # "creating"
    /\ \/ /\ cause = "none"
          /\ \A r \in Resources : st[r] = "created"
          /\ printed' = SummaryOnSuccess("up")
          /\ UNCHANGED thrown
       \/ /\ cause # "none"
          /\ printed' = SummaryOnError("up")
          /\ thrown' = "up"
    /\ pc' = "exit"
    /\ UNCHANGED <<destroy, ops>>
    /\ UNCHANGED World

(***************************************************************************)
(* stack.destroy: the resources are deleted in reverse dependency order    *)
(***************************************************************************)

\* (variant: deletions issued in no particular order)
DeleteReadyAny(r) == TRUE
DeleteReady(r) == \A d \in Dependents(r) : st[d] = "none"

StartDelete(r) ==
    /\ pc = "destroy"
    /\ cause = "none"
    /\ st[r] = "created"
    /\ DeleteReady(r)
    /\ st' = [st EXCEPT ![r] = "deleting"]
    /\ UNCHANGED <<pc, destroy, ops, thrown, printed>>
    /\ UNCHANGED <<cause, dirExists, dirFiles, container, launch, wiped>>

DeleteOk(r) ==
    /\ pc = "destroy"
    /\ st[r] = "deleting"
    /\ st' = [st EXCEPT ![r] = "none"]
    /\ dirExists' = IF r = "workDir" THEN FALSE ELSE dirExists
    /\ dirFiles' = CASE r = "workDir"   -> {}
                     [] r = "keyOnDisk" -> dirFiles \ debugFiles
                     [] OTHER           -> dirFiles
    /\ container' = IF r \in {"dockerRun", "vm"} THEN FALSE ELSE container
    /\ wiped' = CASE r = "workDir"   -> st["keyOnDisk"] # "none"
                  [] r = "keyOnDisk" -> FALSE
                  [] OTHER           -> wiped
    /\ UNCHANGED <<pc, destroy, ops, thrown, printed, cause, launch>>

DeleteFail(r) ==
    /\ pc = "destroy"
    /\ st[r] = "deleting"
    /\ r \notin NoDelete
    /\ st' = [st EXCEPT ![r] = "created"]
    /\ cause' = FirstError(r)
    /\ UNCHANGED <<pc, destroy, ops, thrown, printed>>
    /\ UNCHANGED <<dirExists, dirFiles, container, launch, wiped>>

DestroyReturn ==
    /\ pc = "destroy"
    /\ \A r \in Resources : st[r] # "deleting"
    /\ \/ /\ cause = "none"
          /\ \A r \in Resources : st[r] = "none"
          /\ printed' = SummaryOnSuccess("destroy")
          /\ UNCHANGED thrown
       \/ /\ cause # "none"
          /\ printed' = SummaryOnError("destroy")
          /\ thrown' = "destroy"
    /\ pc' = "exit"
    /\ UNCHANGED <<destroy, ops>>
    /\ UNCHANGED World

Next ==
    \/ Invoke
    \/ SelectOk
    \/ SelectFail
    \/ CancelOk
    \/ CancelFail
    \/ RefreshOk
    \/ RefreshFail
    \/ \E r \in Resources : StartCreate(r)
    \/ \E r \in Resources : CreateOk(r)
    \/ \E r \in Resources : CreateFail(r)
    \/ UpReturn
    \/ \E r \in Resources : StartDelete(r)
    \/ \E r \in Resources : DeleteOk(r)
    \/ \E r \in Resources : DeleteFail(r)
    \/ DestroyReturn

Spec == Init /\ [][Next]_vars

(***************************************************************************)
(* Properties                                                              *)
(***************************************************************************)

IsPrefix(s, t) == Len(s) <= Len(t) /\ \A i \in 1..Len(s) : s[i] = t[i]

Called(op) == \E i \in 1..Len(ops) : ops[i] = op

ApplyEnded == pc = "exit" /\ ~destroy /\ Called("up")

ApplySucceeded == ApplyEnded /\ thrown = "none"

\* C1: the <name>-configure command is started only when the five file
\* transfers and the <name>-docker-run command are all complete.
C1_ConfigureAfterFilesAndRun ==
    st["configure"] = "creating" =>
        /\ \A f \in files : st[f] = "created"
        /\ st["dockerRun"] = "created"

C1_Witness ==
    /\ st["configure"] = "creating"
    /\ \A f \in files : st[f] = "created"
    /\ st["dockerRun"] = "created"

\* C2 as stated: the VM instance is started only when both the TLS private
\* key and the local bundle-generation command are complete.
C2_VmAfterKeyAndBundle ==
    st["vm"] = "creating" => st["sshKey"] = "created" /\ st["workDir"] = "created"

\* C2 amended: the VM instance is started only when the TLS private key is
\* complete (bundle generation may still be pending or running); a file
\* transfer is started only when key, bundle and VM are all complete.
C2_VmAfterKey ==
    /\ st["vm"] = "creating" => st["sshKey"] = "created"
    /\ \A f \in files : st[f] = "creating" =>
           st["sshKey"] = "created" /\ st["workDir"] = "created" /\ st["vm"] = "created"

C2_Witness ==
    /\ st["vm"] = "creating"
    /\ st["sshKey"] = "created"
    /\ st["workDir"] # "created"

C4_BundleAfterSaAndGroup ==
    st["workDir"] = "creating" => st["sa"] = "created" /\ st["wg"] = "created"

\* C4 amended: the bundle-generation command is started only when the
\* ServiceAccount (and the namespace it lives in) is created; the
\* WorkloadGroup is not waited for.
C4_BundleAfterSa ==
    st["workDir"] = "creating" => st["sa"] = "created" /\ st["onpremns"] = "created"

C4_Witness ==
    /\ st["workDir"] = "creating"
    /\ st["sa"] = "created"
    /\ st["wg"] # "created"

\* C5: no remote step (file transfer, docker-setup, docker-run, configure)
\* is ever started, running or present unless the VM instance is created;
\* when the VM instance is what failed in an apply, every remote step is
\* still absent and none of them was attempted (docker run was never issued).
C5_NoRemoteStepWithoutVm ==
    /\ \A r \in RemoteSteps : st[r] # "none" => st["vm"] = "created"
    /\ (cause = "vm" /\ ~destroy) =>
           /\ \A r \in RemoteSteps : st[r] = "none"
           /\ launch = "none"

C5_Witness ==
    /\ ApplyEnded
    /\ cause = "vm"
    /\ thrown = "up"
    /\ \A r \in RemoteSteps : st[r] = "none"

C7_CliOrder ==
    /\ ~destroy => IsPrefix(ops, <<"createOrSelectStack", "cancel", "refresh", "up">>)
    /\ destroy => IsPrefix(ops, <<"createOrSelectStack", "cancel", "destroy">>)
    /\ pc \in {"refresh", "up", "destroy"} => thrown = "none" /\ ops[Len(ops)] = pc
    /\ thrown = "createOrSelectStack" => ops = <<"createOrSelectStack">>
    /\ thrown = "cancel" => ops = <<"createOrSelectStack", "cancel">>

C7_Witness ==
    /\ pc = "exit"
    /\ destroy
    /\ thrown = "none"
    /\ ops = <<"createOrSelectStack", "cancel", "destroy">>

\* C8 as stated: whenever up or destroy was run, its summary has been
\* printed when the action ends, whether the operation succeeded or failed.
C8_SummaryAlways ==
    (pc = "exit" /\ (Called("up") \/ Called("destroy"))) => printed # "none"

\* C8 amended: the summary is printed exactly when the operation succeeds:
\* `update summary` iff up was run and resolved, `destroy summary` iff
\* destroy was run and resolved; when the operation rejects nothing is printed.
C8_SummaryOnSuccessOnly ==
    pc = "exit" =>
        /\ printed = "update" <=> (Called("up") /\ thrown = "none")
        /\ printed = "destroy" <=> (Called("destroy") /\ thrown = "none")
        /\ thrown # "none" => printed = "none"

C8_Witness ==
    /\ pc = "exit"
    /\ Called("up")
    /\ thrown = "up"
    /\ printed = "none"

\* C9: `docker run` is never refused because a container of that name
\* already exists: a launch over an existing container replaces it.
C9_LaunchReplacesExisting == launch # "conflict"

\* C10 as stated: after a successful apply the working directory holds
\* exactly the five bundle files, key and hostname.
C10_SevenFiles ==
    ApplySucceeded => dirFiles = files \cup debugFiles

\* C10 amended: after a successful apply the working directory holds the
\* five bundle files and workloadgroup.yaml, and no file other than those
\* and key and hostname; it holds exactly those eight files unless an
\* earlier destroy removed the directory and stopped before removing the
\* <name>-key command from the stack.
C10_EightFiles ==
    ApplySucceeded =>
        /\ dirExists
        /\ files \cup {workloadgroupYaml} \subseteq dirFiles
        /\ dirFiles \subseteq files \cup {workloadgroupYaml} \cup debugFiles
        /\ ~wiped => dirFiles = files \cup {workloadgroupYaml} \cup debugFiles

C10_Witness ==
    /\ ApplySucceeded
    /\ ~wiped
    /\ dirFiles = files \cup {workloadgroupYaml} \cup debugFiles

\* C11: the <name>-key command, which writes key and hostname into WORK_DIR,
\* is started only when the bundle-generation command that creates WORK_DIR
\* (mkdir -p) is complete, so the directory exists whenever it runs.
C11_SnapshotAfterBundle ==
    st["keyOnDisk"] = "creating" => st["workDir"] = "created" /\ dirExists

====
